---- MODULE Spec2Model ----
(***************************************************************************)
(* Model of run_analysis.py: the Litgrid data pipeline.                    *)
(*                                                                         *)
(* Timestamps are whole days since an epoch (the only time arithmetic in   *)
(* the program is "minus timedelta(days=182)").  A table cell is a         *)
(* sequence of length 0 or 1: <<>> is pandas' missing marker (NaN / NaT),  *)
(* <<x>> is the value x.  A DataFrame is [columns, rows], rows being a     *)
(* sequence of functions from column name to cell, in row order.           *)
(***************************************************************************)
EXTENDS Integers, Sequences, FiniteSets, TLC

VARIABLES
    \* fetch_dataset
    attempts, sleeps, fresult, fpc,
    \* normalisation of one raw record list (fetch_all_data, loop body)
    raw, norm, renorm, npc,
    \* _limit_to_last_6_months
    tin, tout, tpc,
    \* the whole run (__main__)
    feeds, merged, fetched, df, files, message, pc

fetchVars == <<attempts, sleeps, fresult, fpc>>
normVars  == <<raw, norm, renorm, npc>>
trimVars  == <<tin, tout, tpc>>
mainVars  == <<feeds, merged, fetched, df, files, message, pc>>
vars      == <<attempts, sleeps, fresult, fpc, raw, norm, renorm, npc,
               tin, tout, tpc, feeds, merged, fetched, df, files, message, pc>>

-----------------------------------------------------------------------------
(* Bounds of the model *)

\* longest raw record list that is enumerated
MaxRecs == 2
\* most rows of a table handed to the window trim on its own
MaxRows == 3
\* record values range over 0..MaxVal
MaxVal == 1
\* number of series whose record list is enumerated freely in a run
MaxVarying == 1

(* Program constants *)

SIX_MONTH_DAYS == 182
MAX_ATTEMPTS == 3
RETRY_DELAY == 5

-----------------------------------------------------------------------------
(* Cells and tables *)

Missing == <<>>

IsNa(c) == c = Missing

\* an object in a date column that pandas cannot parse as a datetime
Junk == <<-1>>

EmptyFrame == [columns |-> {}, rows |-> <<>>]

\* DataFrame.empty: any axis of length 0
Empty(t) == Len(t.rows) = 0 \/ t.columns = {}

SetMax(S) == CHOOSE m \in S : \A x \in S : x <= m

\* all sequences over S of length 0..n
SeqsUpTo(S, n) == UNION {[1..k -> S] : k \in 0..n}

-----------------------------------------------------------------------------
(* _limit_to_last_6_months *)

\* pd.to_datetime(..., errors="coerce") on one cell
to_datetime_coerce(c) == IF IsNa(c) \/ c[1] < 0 THEN Missing ELSE c

\* Series.max(), which skips NaT; Missing when there is nothing to take
ColumnMax(rows, col) ==
    LET S == {rows[i][col][1] : i \in {j \in 1..Len(rows) : ~IsNa(rows[j][col])}}
    IN  IF S = {} THEN Missing ELSE <<SetMax(S)>>

\* the mask with > in place of >=
limit_mask_strict(c, cutoff) == ~IsNa(c) /\ c[1] > cutoff
\* the boolean mask df[date_col] >= cutoff for one cell (NaT compares False)
limit_mask(c, cutoff) == ~IsNa(c) /\ c[1] >= cutoff

limit_to_last_6_months(t, date_col) ==
    IF Empty(t) \/ date_col \notin t.columns
    THEN t
    ELSE LET c == [t EXCEPT !.rows =
                      [i \in 1..Len(t.rows) |->
                          [t.rows[i] EXCEPT ![date_col] = to_datetime_coerce(@)]]]
             max_dt == ColumnMax(c.rows, date_col)
         IN  IF IsNa(max_dt)
             THEN c
             ELSE LET cutoff == max_dt[1] - SIX_MONTH_DAYS
                      InWindow(r) == limit_mask(r[date_col], cutoff)
                  IN  [c EXCEPT !.rows = SelectSeq(c.rows, InWindow)]

\* day numbers around the window edge, a null and an unparseable object
TrimDates == {<<0>>, <<1>>, <<2>>, <<SIX_MONTH_DAYS + 1>>, <<SIX_MONTH_DAYS + 2>>,
              Missing, Junk}

\* tables handed to the trim: with a date column (rows in any order, tagged
\* by an "id" column), without one, and the DataFrame with no columns
TrimTables ==
    {[columns |-> {"data", "id"},
      rows |-> [i \in 1..Len(d) |-> [data |-> d[i], id |-> <<i>>]]] :
        d \in SeqsUpTo(TrimDates, MaxRows)}
    \cup {[columns |-> {"id"}, rows |-> [i \in 1..k |-> [id |-> <<i>>]]] : k \in 0..MaxRows}
    \cup {EmptyFrame}

InitIdleTrim == tin = EmptyFrame /\ tout = EmptyFrame /\ tpc = "idle"

InitTrim == tin \in TrimTables /\ tout = EmptyFrame /\ tpc = "call"

Trim ==
    /\ tpc = "call"
    /\ tout' = limit_to_last_6_months(tin, "data")
    /\ tpc' = "return"
    /\ UNCHANGED <<tin, fetchVars, normVars, mainVars>>

-----------------------------------------------------------------------------
(* fetch_dataset *)

\* a JSON record of the remote API; ltu is the timestamp text, fmt the way it
\* is written ("datetime": already a datetime object)
Times == {0, 1, SIX_MONTH_DAYS + 1}

RawRecord(t, f, v) == [ltu |-> [t |-> t, fmt |-> f], value |-> <<v>>]

\* what one HTTP attempt can end in: a response with a status and a body
\* that parses as JSON ("json") or does not ("not_json"), or an exception
\* raised by requests.get ("exception": timeout, connection error)
Statuses == {200, 203, 404, 500}

Bodies == {<<>>, <<RawRecord(0, "iso", 1)>>, <<RawRecord(1, "iso", 0)>>}

Outcomes ==
    [kind : {"json"}, status : Statuses, body : Bodies]
    \cup [kind : {"not_json"}, status : Statuses, body : {<<>>}]
    \cup [kind : {"exception"}, status : {0}, body : {<<>>}]

\* the test widened to the whole 2xx range
status_ok_any_2xx(o) == o.kind # "exception" /\ o.status >= 200 /\ o.status < 300
\* line 57: if response.status_code == 200
status_ok(o) == o.kind # "exception" /\ o.status = 200

\* a handler for the errors of requests.get alone
caught_request_errors_only(o) == o.kind = "exception"
\* line 60: except Exception. Both requests' errors and the ValueError of
\* response.json() are subclasses of Exception
caught(o) == o.kind \in {"exception", "not_json"}

\* the attempt reaches "return response.json()" and json() returns
attempt_returns(o) == status_ok(o) /\ o.kind = "json"

\* an exception is raised inside the try block
attempt_raises(o) == o.kind = "exception" \/ (status_ok(o) /\ o.kind = "not_json")

InitIdleFetch == attempts = <<>> /\ sleeps = 0 /\ fresult = <<>> /\ fpc = "idle"

InitFetch == attempts = <<>> /\ sleeps = 0 /\ fresult = <<>> /\ fpc = "request"

\* one pass of the try block, lines 55-61
Request ==
    /\ fpc = "request"
    /\ \E o \in Outcomes :
        /\ attempts' = Append(attempts, o)
        /\ IF attempt_returns(o)
           THEN fresult' = o.body /\ fpc' = "returned"
           ELSE IF attempt_raises(o) /\ ~caught(o)
                THEN fresult' = fresult /\ fpc' = "raised"
                ELSE fresult' = fresult /\ fpc' = "sleep"
    /\ UNCHANGED <<sleeps, normVars, trimVars, mainVars>>

\* line 62: time.sleep(5), then the next pass of "for attempt in range(3)"
Sleep ==
    /\ fpc = "sleep"
    /\ sleeps' = sleeps + RETRY_DELAY
    /\ fpc' = IF Len(attempts) < MAX_ATTEMPTS THEN "request" ELSE "exhausted"
    /\ UNCHANGED <<attempts, fresult, normVars, trimVars, mainVars>>

\* line 64: return []
ReturnEmpty ==
    /\ fpc = "exhausted"
    /\ fresult' = <<>>
    /\ fpc' = "returned"
    /\ UNCHANGED <<attempts, sleeps, normVars, trimVars, mainVars>>

-----------------------------------------------------------------------------
(* fetch_all_data, loop body: one raw record list -> one indexed frame *)

\* pd.to_datetime on the text of a timestamp
to_datetime(ltu) == <<ltu.t>>

\* columns of pd.DataFrame(data): the keys of the records
DataColumns(data) == UNION {DOMAIN data[i] : i \in 1..Len(data)}

\* df[["ltu", "value"]].rename(...) followed by pd.to_datetime(df["data"])
rename_and_parse(data, name) ==
    [i \in 1..Len(data) |->
        ("data" :> to_datetime(data[i].ltu)) @@ (name :> data[i].value)]

\* the same with keep="last"
drop_duplicates_keep_last(rows, col) ==
    LET Keep(i) == \A j \in (i + 1)..Len(rows) : rows[j][col] # rows[i][col]
        F[n \in 0..Len(rows)] ==
            IF n = 0 THEN <<>>
            ELSE IF Keep(n) THEN Append(F[n - 1], rows[n]) ELSE F[n - 1]
    IN  F[Len(rows)]
\* DataFrame.drop_duplicates(subset=col), keep="first"
drop_duplicates(rows, col) ==
    LET Keep(i) == \A j \in 1..(i - 1) : rows[j][col] # rows[i][col]
        F[n \in 0..Len(rows)] ==
            IF n = 0 THEN <<>>
            ELSE IF Keep(n) THEN Append(F[n - 1], rows[n]) ELSE F[n - 1]
    IN  F[Len(rows)]

\* lines 97-108: what one dataset adds to all_dfs, <<>> when it is skipped
normalize_series(data, name) ==
    IF data = <<>>
    THEN <<>>
    ELSE IF "ltu" \in DataColumns(data) /\ "value" \in DataColumns(data)
         THEN << [columns |-> {"data", name},
                  rows |-> drop_duplicates(rename_and_parse(data, name), "data")] >>
         ELSE <<>>

\* the records of a frame, as a raw list again
AsRecords(frame, name) ==
    [i \in 1..Len(frame.rows) |->
        [ltu |-> [t |-> frame.rows[i]["data"][1], fmt |-> "datetime"],
         value |-> frame.rows[i][name]]]

RawRecords == {RawRecord(t, f, v) : t \in Times, f \in {"iso", "space"}, v \in 0..MaxVal}

InitIdleNorm == raw = <<>> /\ norm = <<>> /\ renorm = <<>> /\ npc = "idle"

InitNorm ==
    /\ raw \in SeqsUpTo(RawRecords, MaxRecs)
    /\ norm = <<>> /\ renorm = <<>> /\ npc = "raw"

Normalize ==
    /\ npc = "raw"
    /\ norm' = normalize_series(raw, "Saules")
    /\ npc' = "normalized"
    /\ UNCHANGED <<raw, renorm, fetchVars, trimVars, mainVars>>

Renormalize ==
    /\ npc = "normalized"
    /\ norm # <<>>
    /\ renorm' = normalize_series(AsRecords(norm[1], "Saules"), "Saules")
    /\ npc' = "renormalized"
    /\ UNCHANGED <<raw, norm, fetchVars, trimVars, mainVars>>

-----------------------------------------------------------------------------
(* fetch_all_data *)

\* lines 79-87, in iteration order
datasets ==
    << [id |-> "101", name |-> "Kaupimo"],
       [id |-> "102", name |-> "Saules"],
       [id |-> "103", name |-> "Kitu"],
       [id |-> "104", name |-> "Siluminiu"],
       [id |-> "105", name |-> "Hidro"],
       [id |-> "106", name |-> "Vejo"],
       [id |-> "203", name |-> "Vartojimas"] >>

DatasetIds == {datasets[i].id : i \in 1..Len(datasets)}

\* lines 89-110: the frames collected by the loop; fd[id] is what
\* fetch_dataset returned for dataset id
all_dfs(fd) ==
    LET F[n \in 0..Len(datasets)] ==
            IF n = 0 THEN <<>>
            ELSE F[n - 1] \o normalize_series(fd[datasets[n].id], datasets[n].name)
    IN  F[Len(datasets)]

ValueColumn(frame) == CHOOSE c \in frame.columns : c # "data"

\* the keys under join="inner": those every frame has
join_index_inner(frames) ==
    LET In(f, d) == \E i \in 1..Len(f.rows) : f.rows[i]["data"] = d
        Common(r) == \A k \in 1..Len(frames) : In(frames[k], r["data"])
        first == SelectSeq(frames[1].rows, Common)
    IN  [i \in 1..Len(first) |-> first[i]["data"]]
\* the keys of the joined index, in order of first appearance
join_index(frames) ==
    LET F[n \in 0..Len(frames)] ==
            IF n = 0 THEN <<>>
            ELSE LET prev == F[n - 1]
                     seen == {prev[i] : i \in 1..Len(prev)}
                     New(r) == r["data"] \notin seen
                     fresh == SelectSeq(frames[n].rows, New)
                 IN  prev \o [i \in 1..Len(fresh) |-> fresh[i]["data"]]
    IN  F[Len(frames)]

\* the cell of a frame at key d, Missing when the frame has no such key
CellAt(frame, d) ==
    LET hit == {i \in 1..Len(frame.rows) : frame.rows[i]["data"] = d}
    IN  IF hit = {} THEN Missing
        ELSE frame.rows[CHOOSE i \in hit : TRUE][ValueColumn(frame)]

\* pd.concat(all_dfs, axis=1, join="outer")
concat(frames) ==
    LET idx == join_index(frames)
        cols == {"data"} \cup {ValueColumn(frames[k]) : k \in 1..Len(frames)}
        FrameOf(c) == frames[CHOOSE k \in 1..Len(frames) : ValueColumn(frames[k]) = c]
    IN  [columns |-> cols,
         rows |-> [i \in 1..Len(idx) |->
                     [c \in cols |-> IF c = "data" THEN idx[i]
                                     ELSE CellAt(FrameOf(c), idx[i])]]]

\* the table left in join order
sort_index_skipped(t) == t
\* .sort_index(): rows ascending by key
sort_index(t) ==
    LET Insert(s, r) ==
            LET k == Cardinality({i \in 1..Len(s) : s[i]["data"][1] <= r["data"][1]})
            IN  SubSeq(s, 1, k) \o <<r>> \o SubSeq(s, k + 1, Len(s))
        F[n \in 0..Len(t.rows)] ==
            IF n = 0 THEN <<>> ELSE Insert(F[n - 1], t.rows[n])
    IN  [t EXCEPT !.rows = F[Len(t.rows)]]

\* line 115: final_df before the trim (reset_index turns the key into the
\* column "data", which is how tables are written here)
merge_frames(frames) == sort_index(concat(frames))

\* lines 112-117
fetch_all_data(fd) ==
    LET dfs == all_dfs(fd)
    IN  IF dfs = <<>> THEN EmptyFrame
        ELSE limit_to_last_6_months(merge_frames(dfs), "data")

-----------------------------------------------------------------------------
(* process_data *)

sources == <<"Kaupimo", "Saules", "Kitu", "Siluminiu", "Hidro", "Vejo">>

SourceSet == {sources[i] : i \in 1..Len(sources)}

\* the cell left as it is
fillna_skipped(c) == c
\* fillna(0) on one cell
fillna(c) == IF IsNa(c) THEN <<0>> ELSE c

\* Series.ffill() on column col
ffill(rows, col) ==
    LET F[n \in 0..Len(rows)] ==
            IF n = 0 THEN <<>>
            ELSE LET done == F[n - 1]
                     prev == IF n = 1 THEN Missing ELSE done[n - 1][col]
                     cell == IF IsNa(rows[n][col]) THEN prev ELSE rows[n][col]
                 IN  Append(done, [rows[n] EXCEPT ![col] = cell])
    IN  F[Len(rows)]

\* df[sources].sum(axis=1) for one row
row_sum(r) ==
    LET F[n \in 0..Len(sources)] ==
            IF n = 0 THEN 0
            ELSE F[n - 1] + (IF IsNa(r[sources[n]]) THEN 0 ELSE r[sources[n]][1])
    IN  <<F[Len(sources)]>>

\* the difference taken the other way round
imbalance_reversed(gen, cons) ==
    IF IsNa(gen) \/ IsNa(cons) THEN Missing ELSE <<cons[1] - gen[1]>>
\* Sumine_Generacija - Vartojimas, NaN when either side is
imbalance(gen, cons) ==
    IF IsNa(gen) \/ IsNa(cons) THEN Missing ELSE <<gen[1] - cons[1]>>

\* df[sources] / df["Vartojimas"] on a table lacking one of the columns
\* raises KeyError (lines 136, 137)
process_data_raises(t) ==
    /\ ~Empty(t)
    /\ ~((SourceSet \cup {"Vartojimas"}) \subseteq limit_to_last_6_months(t, "data").columns)

\* lines 129-142, for a table on which no KeyError is raised
process_data(t) ==
    IF Empty(t) THEN t
    ELSE LET d == limit_to_last_6_months(t, "data")
             filled == [i \in 1..Len(d.rows) |->
                          [c \in d.columns |->
                              IF c \in SourceSet THEN fillna(d.rows[i][c])
                              ELSE d.rows[i][c]]]
             ff == ffill(filled, "Vartojimas")
             cols == d.columns \cup {"Sumine_Generacija", "Disbalansas"}
         IN  [columns |-> cols,
              rows |-> [i \in 1..Len(ff) |->
                          [c \in cols |->
                              IF c = "Sumine_Generacija" THEN row_sum(ff[i])
                              ELSE IF c = "Disbalansas"
                                   THEN imbalance(row_sum(ff[i]), ff[i]["Vartojimas"])
                                   ELSE ff[i][c]]]]

-----------------------------------------------------------------------------
(* create_visualizations, perform_analysis: the files they write *)

create_visualizations(t) ==
    IF Empty(t) THEN {}
    ELSE {"generacija_vartojimas.png", "disbalansas.png", "pie_charts"}

perform_analysis(t) ==
    IF Empty(t) THEN {}
    ELSE {"vidutine_savaite.png", "analizes_rezultatai.txt"}

-----------------------------------------------------------------------------
(* __main__ *)

\* the branch taken whatever the table
has_data_always(t) == TRUE
\* line 296: if not df.empty
has_data(t) == ~Empty(t)

\* the record list of a series: at day ts[i] the i-th record, whose value is
\* its position in the list
Feed(ts) == [i \in 1..Len(ts) |-> RawRecord(ts[i], "iso", i - 1)]

\* a response whose records carry neither "ltu" nor "value"
Malformed == << [message |-> <<0>>] >>

\* a series that has the two early days and not yet the late one
EarlyFeed == Feed(<<0, 1>>)

Baselines == {<<>>, EarlyFeed}

Feeds == {Feed(ts) : ts \in SeqsUpTo(Times, MaxRecs)} \cup {Malformed}

\* the sets of series whose record list is enumerated freely
VaryingSets == {S \in SUBSET DatasetIds : Cardinality(S) <= MaxVarying}

InitIdleMain ==
    /\ feeds = [i \in DatasetIds |-> <<>>]
    /\ merged = EmptyFrame /\ fetched = EmptyFrame /\ df = EmptyFrame
    /\ files = {} /\ message = "" /\ pc = "idle"

\* the results of the seven fetch_dataset calls: all series return the same
\* baseline except those of one varying set, which return any list of Feeds
InitMain ==
    /\ \E base \in Baselines : \E V \in VaryingSets : \E g \in [V -> Feeds] :
          feeds = [i \in DatasetIds |-> IF i \in V THEN g[i] ELSE base]
    /\ merged = EmptyFrame /\ fetched = EmptyFrame /\ df = EmptyFrame
    /\ files = {} /\ message = "" /\ pc = "start"

\* line 294: df = fetch_all_data()
FetchAllData ==
    /\ pc = "start"
    /\ LET dfs == all_dfs(feeds)
           final_df == fetch_all_data(feeds)
       IN  /\ merged' = (IF dfs = <<>> THEN EmptyFrame ELSE merge_frames(dfs))
           /\ fetched' = final_df
           /\ df' = final_df
    /\ pc' = "fetched"
    /\ UNCHANGED <<feeds, files, message, fetchVars, normVars, trimVars>>

\* line 297: df = process_data(df); an uncaught KeyError ends the run
ProcessData ==
    /\ pc = "fetched"
    /\ has_data(df)
    /\ IF process_data_raises(df)
       THEN df' = df /\ pc' = "crashed" /\ message' = "KeyError"
       ELSE df' = process_data(df) /\ pc' = "processed" /\ message' = message
    /\ UNCHANGED <<feeds, merged, fetched, files, fetchVars, normVars, trimVars>>

\* line 299: df.to_csv("processed_litgrid_data.csv")
ExportCsv ==
    /\ pc = "processed"
    /\ files' = files \cup {"processed_litgrid_data.csv"}
    /\ pc' = "exported"
    /\ UNCHANGED <<feeds, merged, fetched, df, message, fetchVars, normVars, trimVars>>

\* line 302
CreateVisualizations ==
    /\ pc = "exported"
    /\ files' = files \cup create_visualizations(df)
    /\ pc' = "visualized"
    /\ UNCHANGED <<feeds, merged, fetched, df, message, fetchVars, normVars, trimVars>>

\* lines 303-305
PerformAnalysis ==
    /\ pc = "visualized"
    /\ files' = files \cup perform_analysis(df)
    /\ message' = "Analize sekmingai baigta"
    /\ pc' = "done"
    /\ UNCHANGED <<feeds, merged, fetched, df, fetchVars, normVars, trimVars>>

\* lines 306-307
ReportFailure ==
    /\ pc = "fetched"
    /\ ~has_data(df)
    /\ message' = "Analize nepavyko"
    /\ pc' = "failed"
    /\ UNCHANGED <<feeds, merged, fetched, df, files, fetchVars, normVars, trimVars>>

-----------------------------------------------------------------------------
(* Specifications *)

Init == InitMain /\ InitIdleFetch /\ InitIdleNorm /\ InitIdleTrim

Next ==
    \/ FetchAllData
    \/ ProcessData
    \/ ExportCsv
    \/ CreateVisualizations
    \/ PerformAnalysis
    \/ ReportFailure

Spec == Init /\ [][Next]_vars

InitFetchSpec == InitFetch /\ InitIdleMain /\ InitIdleNorm /\ InitIdleTrim

NextFetch == Request \/ Sleep \/ ReturnEmpty

SpecFetch == InitFetchSpec /\ [][NextFetch]_vars

InitNormSpec == InitNorm /\ InitIdleMain /\ InitIdleFetch /\ InitIdleTrim

NextNorm == Normalize \/ Renormalize

SpecNorm == InitNormSpec /\ [][NextNorm]_vars

InitTrimSpec == InitTrim /\ InitIdleMain /\ InitIdleFetch /\ InitIdleNorm

NextTrim == Trim

SpecTrim == InitTrimSpec /\ [][NextTrim]_vars

-----------------------------------------------------------------------------
(* Properties of fetch_dataset, under SpecFetch *)

\* an attempt that did not hand back a parsed body of a 200 response
Failed(o) == ~(o.kind = "json" /\ o.status = 200)

\* C1: a call in which every attempt fails makes exactly 3 attempts and
\* then returns the empty list; no exception leaves fetch_dataset.
C1_RetryBound ==
    /\ fpc # "raised"
    /\ (fpc = "returned" /\ \A k \in 1..Len(attempts) : Failed(attempts[k]))
        => (Len(attempts) = 3 /\ fresult = <<>>)

C1_Witness ==
    /\ fpc = "returned"
    /\ Len(attempts) = 3
    /\ \A k \in 1..3 : Failed(attempts[k])
    /\ attempts[1].kind = "exception"
    /\ attempts[2].kind = "json" /\ attempts[2].status = 500
    /\ attempts[3].kind = "not_json" /\ attempts[3].status = 200

\* the retry rule for a notion Good of an attempt that ends the call:
\* a good attempt is the last one and the call returns its records at once;
\* any other attempt is followed by the 5-second delay and, while fewer than
\* 3 attempts have been made, by another attempt
RetryRule(Good(_)) ==
    LET n == Len(attempts)
        bad == Cardinality({k \in 1..n : ~Good(attempts[k])})
    IN  /\ n <= 3
        /\ \A k \in 1..n :
            /\ Good(attempts[k]) =>
                  (k = n /\ fpc = "returned" /\ fresult = attempts[k].body)
            /\ (~Good(attempts[k]) /\ k < 3) => (k < n \/ fpc \in {"sleep", "request"})
            /\ (~Good(attempts[k]) /\ k = 3) =>
                  (fpc \in {"sleep", "exhausted", "returned"}
                   /\ (fpc = "returned" => fresult = <<>>))
        /\ sleeps = 5 * (IF fpc = "sleep" THEN bad - 1 ELSE bad)

Is2xx(o) == o.kind = "json" /\ o.status >= 200 /\ o.status <= 299

Is200(o) == o.kind = "json" /\ o.status = 200

\* C9, as stated: an attempt that receives a 2xx status ends the call at
\* once with that response's records; any other attempt is retried while
\* fewer than 3 attempts have been made, after a 5-second delay.
C9_Original == RetryRule(Is2xx)

\* C9, amended: the attempt that ends the call is the one that receives
\* status 200 with a body that parses as JSON; every other attempt
\* (any other status, 2xx included, or an exception) is followed by the
\* 5-second delay and, while fewer than 3 attempts have been made, by
\* another attempt.
C9_RetryOn200 == RetryRule(Is200)

C9_Witness ==
    /\ fpc = "returned"
    /\ Len(attempts) = 2
    /\ attempts[1].kind = "json" /\ attempts[1].status = 203
    /\ Is200(attempts[2]) /\ attempts[2].body # <<>>
    /\ fresult = attempts[2].body
    /\ sleeps = 5

-----------------------------------------------------------------------------
(* Properties of the normalisation, under SpecNorm *)

RawTimes == {raw[i].ltu.t : i \in 1..Len(raw)}

FirstAt(t) == CHOOSE i \in 1..Len(raw) :
                /\ raw[i].ltu.t = t
                /\ \A j \in 1..(i - 1) : raw[j].ltu.t # t

\* C7: the normalised series has one row per distinct timestamp of the raw
\* list, each with the value of the first raw record of that timestamp, and
\* normalising it again changes nothing.
C7_Dedup ==
    (npc \in {"normalized", "renormalized"} /\ raw # <<>>) =>
        /\ Len(norm) = 1
        /\ LET rows == norm[1].rows
           IN  /\ \A i, j \in 1..Len(rows) : i # j => rows[i]["data"] # rows[j]["data"]
               /\ Len(rows) = Cardinality(RawTimes)
               /\ \A i \in 1..Len(rows) :
                    \E t \in RawTimes :
                        /\ rows[i]["data"] = <<t>>
                        /\ rows[i]["Saules"] = raw[FirstAt(t)].value
        /\ (npc = "renormalized" => renorm = norm)

C7_Witness ==
    /\ npc = "renormalized"
    /\ Len(raw) = 2
    /\ raw[1].ltu.t = raw[2].ltu.t
    /\ raw[1].ltu.fmt # raw[2].ltu.fmt
    /\ raw[1].value # raw[2].value
    /\ Len(norm[1].rows) = 1

-----------------------------------------------------------------------------
(* Properties of the window trim, under SpecTrim *)

Parseable(c) == c # <<>> /\ c[1] >= 0

\* C4: the trim keeps exactly the rows dated within [T - 182, T], T being
\* the newest date of the table, in their order; an empty table and a table
\* without the date column come back unchanged.
C4_Window ==
    tpc = "return" =>
        IF Len(tin.rows) = 0 \/ tin.columns = {} \/ "data" \notin tin.columns
        THEN tout = tin
        ELSE LET P == {i \in 1..Len(tin.rows) : Parseable(tin.rows[i]["data"])}
                 Day(i) == tin.rows[i]["data"][1]
             IN  P # {} =>
                    LET T == CHOOSE d \in {Day(i) : i \in P} : \A i \in P : Day(i) <= d
                        Kept == {i \in P : T - 182 <= Day(i) /\ Day(i) <= T}
                    IN  /\ tout.columns = tin.columns
                        /\ Len(tout.rows) = Cardinality(Kept)
                        /\ {tout.rows[k]["id"][1] : k \in 1..Len(tout.rows)} = Kept
                        /\ \A k \in 1..Len(tout.rows) :
                              tout.rows[k]["data"] = tin.rows[tout.rows[k]["id"][1]]["data"]
                        /\ \A k, l \in 1..Len(tout.rows) :
                              k < l => tout.rows[k]["id"][1] < tout.rows[l]["id"][1]

\* the newest row, the row exactly 182 days older and an older one
C4_Witness ==
    /\ tpc = "return"
    /\ "data" \in tin.columns
    /\ Len(tin.rows) = 3
    /\ tin.rows[1]["data"] = <<0>>
    /\ tin.rows[2]["data"] = <<183>>
    /\ tin.rows[3]["data"] = <<1>>
    /\ Len(tout.rows) = 2

-----------------------------------------------------------------------------
(* Properties of the run, under Spec *)

\* the dataset's fetch returned records that carry "ltu" and "value"
HasData(id) == feeds[id] # <<>> /\ "ltu" \in DOMAIN feeds[id][1]

NameOf(id) == (CHOOSE k \in 1..Len(datasets) : datasets[k].id = id)

FeedTimes(id) == {feeds[id][i].ltu.t : i \in 1..Len(feeds[id])}

FirstValue(id, t) ==
    feeds[id][CHOOSE i \in 1..Len(feeds[id]) :
                /\ feeds[id][i].ltu.t = t
                /\ \A j \in 1..(i - 1) : feeds[id][j].ltu.t # t].value

Present == {id \in DatasetIds : HasData(id)}

ColumnOf(id) == datasets[NameOf(id)].name

Days(t) == {t.rows[i]["data"] : i \in 1..Len(t.rows)}

\* C3: the merged table (before the trim) has one row per timestamp of the
\* union of the series' timestamps; the cell of a series at a timestamp is
\* the series' value there, and the missing marker where it has none.
C3_OuterJoin ==
    (pc # "start" /\ Present # {}) =>
        /\ merged.columns = {"data"} \cup {ColumnOf(id) : id \in Present}
        /\ Days(merged) = {<<t>> : t \in UNION {FeedTimes(id) : id \in Present}}
        /\ Len(merged.rows) = Cardinality(Days(merged))
        /\ \A i \in 1..Len(merged.rows) : \A id \in Present :
              LET t == merged.rows[i]["data"][1]
              IN  merged.rows[i][ColumnOf(id)] =
                     IF t \in FeedTimes(id) THEN FirstValue(id, t) ELSE Missing

\* one series over days {0, 1}, another over {1, 183}
C3_Witness ==
    /\ pc # "start"
    /\ HasData("102") /\ HasData("203")
    /\ FeedTimes("102") = {1, 183}
    /\ FeedTimes("203") = {0, 1}
    /\ Len(merged.rows) = 3
    /\ merged.rows[1]["Saules"] = Missing /\ merged.rows[1]["Vartojimas"] # Missing
    /\ merged.rows[2]["Saules"] # Missing /\ merged.rows[2]["Vartojimas"] # Missing
    /\ merged.rows[3]["Saules"] # Missing /\ merged.rows[3]["Vartojimas"] = Missing

Ascending(t) ==
    \A i \in 1..(Len(t.rows) - 1) : t.rows[i]["data"][1] < t.rows[i + 1]["data"][1]

\* C10: the merged table, the trimmed table and the processed table have
\* their rows in strictly ascending timestamp order.
C10_Ascending == Ascending(merged) /\ Ascending(fetched) /\ Ascending(df)

\* the first series arrives newest-first
C10_Witness ==
    /\ pc = "done"
    /\ Len(feeds["101"]) = 2
    /\ feeds["101"][1].ltu.t = 183 /\ feeds["101"][2].ltu.t = 1
    /\ Len(merged.rows) = 3 /\ Len(df.rows) = 2

Processed == {"processed", "exported", "visualized", "done"}

\* C5: processing turns every missing generation cell into 0 and leaves the
\* others; a missing consumption cell takes the value of the nearest earlier
\* row that has one and stays missing when there is none.
C5_GapFill ==
    pc \in Processed =>
        /\ Len(df.rows) = Len(fetched.rows)
        /\ \A i \in 1..Len(df.rows) :
              LET f == fetched.rows[i]
                  r == df.rows[i]
                  known == {j \in 1..i : fetched.rows[j]["Vartojimas"] # <<>>}
              IN  /\ r["data"] = f["data"]
                  /\ \A g \in {"Kaupimo", "Saules", "Kitu", "Siluminiu", "Hidro", "Vejo"} :
                        r[g] = IF f[g] = <<>> THEN <<0>> ELSE f[g]
                  /\ r["Vartojimas"] =
                        IF known = {} THEN <<>>
                        ELSE fetched.rows[CHOOSE j \in known : \A k \in known : k <= j]["Vartojimas"]

\* the late day is known to one generation series only
C5_Witness ==
    /\ pc \in Processed
    /\ Len(df.rows) = 2
    /\ fetched.rows[1]["Hidro"] = <<>> /\ df.rows[1]["Hidro"] = <<0>>
    /\ fetched.rows[2]["Hidro"] # <<>> /\ df.rows[2]["Hidro"] = fetched.rows[2]["Hidro"]
    /\ fetched.rows[1]["Vartojimas"] # <<>>
    /\ fetched.rows[2]["Vartojimas"] = <<>>
    /\ df.rows[2]["Vartojimas"] = fetched.rows[1]["Vartojimas"]

\* C6: in the processed table aggregate generation is the sum of the six
\* generation columns on every row; imbalance is aggregate generation minus
\* consumption where consumption is defined, and is undefined only on rows
\* with no consumption observation at or before them.
C6_Imbalance ==
    pc \in Processed =>
        \A i \in 1..Len(df.rows) :
            LET r == df.rows[i]
            IN  /\ \A g \in {"Kaupimo", "Saules", "Kitu", "Siluminiu", "Hidro", "Vejo"} :
                      r[g] # <<>>
                /\ r["Sumine_Generacija"] =
                      << r["Kaupimo"][1] + r["Saules"][1] + r["Kitu"][1]
                         + r["Siluminiu"][1] + r["Hidro"][1] + r["Vejo"][1] >>
                /\ r["Vartojimas"] # <<>> =>
                      r["Disbalansas"] =
                          << r["Sumine_Generacija"][1] - r["Vartojimas"][1] >>
                /\ r["Vartojimas"] = <<>> =>
                      /\ r["Disbalansas"] = <<>>
                      /\ \A j \in 1..i : fetched.rows[j]["Vartojimas"] = <<>>

\* consumption starts one day late: no imbalance on the first row, a
\* surplus on the second
C6_Witness ==
    /\ pc \in Processed
    /\ Len(df.rows) = 2
    /\ df.rows[1]["Disbalansas"] = <<>>
    /\ df.rows[2]["Sumine_Generacija"] = <<6>>
    /\ df.rows[2]["Vartojimas"] = <<0>>
    /\ df.rows[2]["Disbalansas"] = <<6>>

NoData == \A id \in DatasetIds : feeds[id] = <<>>

\* C8: when all seven fetches return nothing the fetched table is empty, no
\* file is written and the run ends with the failure message; the export
\* file is written only when the fetched table is not empty.
C8_EmptyRun ==
    /\ (NoData /\ pc # "start") =>
          /\ Len(fetched.rows) = 0
          /\ files = {}
          /\ pc \in {"fetched", "failed"}
          /\ (pc = "failed" => message = "Analize nepavyko")
    /\ "processed_litgrid_data.csv" \in files => Len(fetched.rows) > 0

C8_Witness == NoData /\ pc = "failed" /\ files = {} /\ message = "Analize nepavyko"

\* C2: when some but not all of the seven series yield data, the fetched
\* table is not empty, process_data does not raise, and the run writes the
\* export file.
C2_PartialProceeds ==
    (pc # "start" /\ Present # {} /\ Present # DatasetIds) =>
        /\ Len(fetched.rows) > 0
        /\ pc # "crashed"
        /\ pc \in {"exported", "visualized", "done"} =>
              "processed_litgrid_data.csv" \in files

====
